---------------------------- MODULE Spec2Model ----------------------------
(***************************************************************************)
(* One POST to CorrelationAnalysisView (correlation_analysis/views.py) and *)
(* the CorrelationCalculator.calculate call it makes                       *)
(* (algorithms/correlation.py).                                            *)
(*                                                                         *)
(* Modelling choices, each taken from the source:                          *)
(*  - a date/datetime value is [day, tod, dt]: dt says whether the Python  *)
(*    object is a datetime (tod is its time of day) or a plain date.       *)
(*  - a price series (pandas Series) is a function from the days of its    *)
(*    index to prices; prices are positive integers.                       *)
(*  - a table cell is a rational [num, den]; den = 0 is NaN.               *)
(*  - statistics are computed in exact arithmetic (no float rounding, and  *)
(*    round() is not modelled).                                            *)
(*  - an exception is [type, msg]; msg is the list of the message's parts, *)
(*    so that an f-string that embeds str(e) is a concatenation.           *)
(*  - DataFrame.pct_change pads missing values before differencing in      *)
(*    pandas < 3 and does not in pandas >= 3: the build decides, so the    *)
(*    returns step takes either.                                           *)
(*  - ticker1 and ticker2 are different symbols.                           *)
(***************************************************************************)
EXTENDS Integers, Sequences, FiniteSets, TLC

VARIABLES
    pc,           \* where the request is: post, calculate, fetch1, fetch2, compute, persist, except, done
    request,      \* request.data as seen by the request serializer
    now,          \* what datetime.now() returned, None before it is read
    start_date,   \* calculate's local start_date after defaulting (None before)
    end_date,     \* calculate's local end_date after defaulting (None before)
    log,          \* history: the yf.download calls and the statistics step, in order
    stock1_data,  \* calculate's local stock1_data (None before the fetch returned)
    stock2_data,  \* calculate's local stock2_data
    combined_data,\* calculate's local combined_data (None before the alignment)
    returns,      \* calculate's local returns, after dropna (None before)
    outcome,      \* None, or what calculate returned/raised
    records,      \* the CorrelationAnalysis table
    response,     \* None, or the HTTP response of post
    calls         \* number of CorrelationCalculator.calculate invocations

vars == <<pc, request, now, start_date, end_date, log, stock1_data, stock2_data,
          combined_data, returns, outcome, records, response, calls>>

--------------------------------------------------------------------------
(* Bounds *)

MaxDay == 4

Days == 1..MaxDay

Prices == {1, 2}

--------------------------------------------------------------------------
(* Optional values, dates, exceptions *)

None == << >>

Some(v) == <<v>>

IsNone(o) == Len(o) = 0

Date(d) == [day |-> d, tod |-> 0, dt |-> FALSE]

Datetime(d, t) == [day |-> d, tod |-> t, dt |-> TRUE]

LookbackDays == 365

\* timedelta subtraction: date - timedelta(days=n)
MinusDays(v, n) == [v EXCEPT !.day = @ - n]

\* x.date() if isinstance(x, datetime) else x
ToDate(v) == IF v.dt THEN Date(v.day) ELSE v

\* chronological order of two values
Before(a, b) == a.day < b.day \/ (a.day = b.day /\ a.tod <= b.tod)

ValueError(m) == [type |-> "ValueError", msg |-> m]

Return(v) == [ok |-> TRUE, value |-> v]

Raise(e) == [ok |-> FALSE, exc |-> e]

--------------------------------------------------------------------------
(* The price source (yfinance) and fetch_stock_data *)

\* every Series a download can hold: an index (a set of days) with a price each
AllSeries == UNION {[D -> Prices] : D \in SUBSET Days}

SourceExceptions == {[type |-> "ConnectionError", msg |-> <<"connection timed out">>]}

\* what yf.download can do: raise, or return a frame with or without "Adj Close"
SourceResponses ==
    {[kind |-> "raise", exc |-> e, adj |-> FALSE, rows |-> << >>] : e \in SourceExceptions}
    \cup {[kind |-> "frame", exc |-> None, adj |-> a, rows |-> s] :
             a \in BOOLEAN, s \in AllSeries}

MsgNoData(ticker) == <<"No data found for ticker", ticker>>

\* f"Error fetching data for {ticker}: {str(e)}"
MsgFetch(ticker, m) == <<"Error fetching data for", ticker>> \o m

\* data.empty or "Adj Close" not in data.columns
NoDataFound(resp) == DOMAIN resp.rows = {} \/ ~resp.adj

\* the try block of fetch_stock_data
FetchTry(ticker, resp) ==
    IF resp.kind = "raise" THEN Raise(resp.exc)
    ELSE IF NoDataFound(resp) THEN Raise(ValueError(MsgNoData(ticker)))
    ELSE Return(resp.rows)

\* fetch_stock_data: the try block under its "except Exception" handler
fetch_stock_data(ticker, resp) ==
    LET r == FetchTry(ticker, resp)
    IN  IF r.ok THEN r ELSE Raise(ValueError(MsgFetch(ticker, r.exc.msg)))

--------------------------------------------------------------------------
(* pandas: concat, pct_change, dropna, corr, cov *)

NaN == [num |-> 0, den |-> 0]

IsNaN(x) == x.den = 0

Min(S) == CHOOSE x \in S : \A y \in S : x <= y

RECURSIVE SortedSeq(_)
SortedSeq(S) == IF S = {} THEN << >> ELSE <<Min(S)>> \o SortedSeq(S \ {Min(S)})

\* the value of series s at day d in the joined table
Cell(s, d) == IF d \in DOMAIN s THEN [num |-> s[d], den |-> 1] ELSE NaN

\* variant: the index is the days of s1, then the days only s2 has
ConcatMutUnsorted(s1, s2) ==
    LET idx == SortedSeq(DOMAIN s1) \o SortedSeq(DOMAIN s2 \ DOMAIN s1)
    IN  [i \in 1..Len(idx) |-> [date |-> idx[i], c1 |-> Cell(s1, idx[i]), c2 |-> Cell(s2, idx[i])]]

\* pd.concat([s1, s2], axis=1): one row per day of either index, in date order
\* (the union of DatetimeIndexes is sorted)
Concat(s1, s2) ==
    LET idx == SortedSeq(DOMAIN s1 \cup DOMAIN s2)
    IN  [i \in 1..Len(idx) |-> [date |-> idx[i], c1 |-> Cell(s1, idx[i]), c2 |-> Cell(s2, idx[i])]]

\* forward fill: the last valid value of col at or before row i
RECURSIVE Ffill(_, _)
Ffill(col, i) ==
    IF i = 0 THEN NaN
    ELSE IF ~IsNaN(col[i]) THEN col[i]
    ELSE Ffill(col, i - 1)

\* data / data.shift(1) - 1 for one cell
PctCell(cur, prev) ==
    IF IsNaN(cur) \/ IsNaN(prev) THEN NaN
    ELSE [num |-> cur.num * prev.den - cur.den * prev.num, den |-> cur.den * prev.num]

\* Series.pct_change of one column under the build's fill_method
PctColumn(col, fm) ==
    LET data == IF fm = "pad" THEN [i \in 1..Len(col) |-> Ffill(col, i)] ELSE col
    IN  [i \in 1..Len(col) |-> IF i = 1 THEN NaN ELSE PctCell(data[i], data[i - 1])]

\* DataFrame.pct_change: per column, the index kept
pct_change(table, fm) ==
    LET r1 == PctColumn([i \in 1..Len(table) |-> table[i].c1], fm)
        r2 == PctColumn([i \in 1..Len(table) |-> table[i].c2], fm)
    IN  [i \in 1..Len(table) |-> [date |-> table[i].date, c1 |-> r1[i], c2 |-> r2[i]]]

RowComplete(row) == ~IsNaN(row.c1) /\ ~IsNaN(row.c2)

\* DataFrame.dropna(): drop every row with a NaN in any column
dropna(rows) == SelectSeq(rows, RowComplete)

RECURSIVE SumSeq(_)
SumSeq(s) == IF Len(s) = 0 THEN 0 ELSE Head(s) + SumSeq(Tail(s))

RECURSIVE ProdSeq(_)
ProdSeq(s) == IF Len(s) = 0 THEN 1 ELSE Head(s) * ProdSeq(Tail(s))

\* a column of rationals over their common denominator: <<numerators, denominator>>
Scaled(col) ==
    LET B == ProdSeq([i \in 1..Len(col) |-> col[i].den])
    IN  [nums |-> [i \in 1..Len(col) |-> col[i].num * (B \div col[i].den)], den |-> B]

\* n * sum(x*y) - sum(x) * sum(y): n*(n-1) times the sample co-moment
CoMoment(x, y) ==
    Len(x) * SumSeq([i \in 1..Len(x) |-> x[i] * y[i]]) - SumSeq(x) * SumSeq(y)

\* Series.corr (Pearson): cov / sqrt(var_x * var_y), NaN when a variance is 0.
\* The value is kept exactly as num / sqrt(sxx * syy).
SeriesCorr(xc, yc) ==
    LET x == Scaled(xc).nums
        y == Scaled(yc).nums
        sxx == CoMoment(x, x)
        syy == CoMoment(y, y)
    IN  [nan |-> Len(xc) < 2 \/ sxx = 0 \/ syy = 0, num |-> CoMoment(x, y), sxx |-> sxx, syy |-> syy]

\* Series.cov: the sample covariance (ddof = 1), NaN below 2 observations
SeriesCov(xc, yc) ==
    LET x == Scaled(xc)
        y == Scaled(yc)
        n == Len(xc)
    IN  [nan |-> n < 2, num |-> CoMoment(x.nums, y.nums), den |-> n * (n - 1) * x.den * y.den]

\* pd.isna of a statistic
isna(stat) == stat.nan

\* the index entry of a row as a pandas Timestamp (midnight of the day)
Timestamp(d) == Datetime(d, 0)

\* strftime("%Y-%m-%d"): the calendar day of a timestamp as text
strftime(ts) == [iso |-> ts.day]

\* datetime.strptime(text, "%Y-%m-%d").date()
strptime_date(text) == Date(text.iso)

--------------------------------------------------------------------------
(* CorrelationCalculator.calculate *)

MinReturns == 2

MsgInsufficient == <<"Insufficient data points for correlation calculation">>

MsgNaN == <<"Calculation resulted in NaN values">>

\* f"Calculation error: {str(e)}"
MsgCalc(m) == <<"Calculation error">> \o m

\* variant: the handler re-raises what it caught
CalculationErrorMutReraise(e) == Raise(e)

\* the "except Exception as e" handler of calculate
CalculationError(e) == Raise(ValueError(MsgCalc(e.msg)))

\* end_date or datetime.now()
DefaultEnd(given, clock) == IF IsNone(given) THEN clock ELSE given[1]

\* variant: the default start is taken from the end's calendar date
DefaultStartMutNormalized(given, end) ==
    IF IsNone(given) THEN MinusDays(ToDate(end), LookbackDays) ELSE given[1]

\* start_date or (end_date - timedelta(days=365)), end_date already defaulted
DefaultStart(given, end) == IF IsNone(given) THEN MinusDays(end, LookbackDays) ELSE given[1]

\* variant: the check is against 1
InsufficientMutOne(rets) == Len(rets) < 1

\* len(returns) < 2
Insufficient(rets) == Len(rets) < MinReturns

\* returns = combined_data.pct_change().dropna()
Returns(combined, fm) == dropna(pct_change(combined, fm))

\* variant: only the covariance is validated
InvalidMutCovarianceOnly(correlation, covariance) == isna(covariance)

\* pd.isna(correlation) or pd.isna(covariance)
Invalid(correlation, covariance) == isna(correlation) \/ isna(covariance)

\* returns.index[0].strftime("%Y-%m-%d")
FirstDate(rets) == strftime(Timestamp(rets[1].date))

\* returns.index[-1].strftime("%Y-%m-%d")
LastDate(rets) == strftime(Timestamp(rets[Len(rets)].date))

\* steps 6 to 8 of calculate, inside its try block: sufficiency check,
\* statistics, validation, assembly
Compute(t1, t2, sd, ed, combined, rets) ==
    LET x == [i \in 1..Len(rets) |-> rets[i].c1]
        y == [i \in 1..Len(rets) |-> rets[i].c2]
        correlation == SeriesCorr(x, y)
        covariance == SeriesCov(x, y)
    IN  IF Insufficient(rets) THEN Raise(ValueError(MsgInsufficient))
        ELSE IF Invalid(correlation, covariance) THEN Raise(ValueError(MsgNaN))
        ELSE Return([correlation  |-> correlation,
                     covariance   |-> covariance,
                     start_date   |-> ToDate(sd),
                     end_date     |-> ToDate(ed),
                     ticker1      |-> t1,
                     ticker2      |-> t2,
                     data_points  |-> Len(rets),
                     first_date   |-> FirstDate(rets),
                     last_date    |-> LastDate(rets),
                     trading_days |-> Len(combined)])

\* what the history keeps of a download: how the source answered
Answer(resp) ==
    IF resp.kind = "raise" THEN [kind |-> "raise", msg |-> resp.exc.msg]
    ELSE IF DOMAIN resp.rows = {} THEN [kind |-> "empty", msg |-> << >>]
    ELSE IF ~resp.adj THEN [kind |-> "nofield", msg |-> << >>]
    ELSE [kind |-> "rows", msg |-> << >>]

\* the history entry of one fetch_stock_data call: its arguments, the source's
\* answer, and the exception the call raised (None when it returned)
Download(ticker, sd, ed, resp, r) ==
    [op |-> "download", ticker |-> ticker, start |-> sd, end |-> ed,
     answer |-> Answer(resp), raised |-> IF r.ok THEN None ELSE Some(r.exc)]

\* variant: calculate goes on after a failed fetch
AfterFetchMutContinue(r, next) == next

\* where calculate goes after a fetch: on, or to its except handler
AfterFetch(r, next) == IF r.ok THEN next ELSE "except"

--------------------------------------------------------------------------
(* The request and the view *)

\* the default fill_method of DataFrame.pct_change: "pad" in pandas < 3, none in
\* pandas >= 3
FillMethods == {"pad", "none"}

\* the dates a request can name, and the clock
StartDays == {1}

EndDays == {MaxDay - 1}

Clock == {Datetime(MaxDay, 1)}

OptDates(D) == {None} \cup {Some(Date(d)) : d \in D}

Requests ==
    {[valid |-> TRUE, ticker1 |-> "AAA", ticker2 |-> "BBB", start_date |-> s, end_date |-> e] :
        s \in OptDates(StartDays), e \in OptDates(EndDays)}
    \cup {[valid |-> FALSE, ticker1 |-> "AAA", ticker2 |-> "BBB", start_date |-> None, end_date |-> None]}

HTTP_201_CREATED == 201

HTTP_400_BAD_REQUEST == 400

HTTP_500_INTERNAL_SERVER_ERROR == 500

\* [f.name for f in CorrelationAnalysis._meta.fields]
ModelFields == {"id", "ticker1", "ticker2", "correlation", "covariance", "start_date",
                "end_date", "first_date", "last_date", "data_points", "trading_days",
                "created_at"}

\* the keys of a result that are model fields
Filtered(result) == [k \in (DOMAIN result) \cap ModelFields |-> result[k]]

Init ==
    /\ pc = "post"
    /\ request \in Requests
    /\ now = None
    /\ start_date = None
    /\ end_date = None
    /\ log = << >>
    /\ stock1_data = None
    /\ stock2_data = None
    /\ combined_data = None
    /\ returns = None
    /\ outcome = None
    /\ records = << >>
    /\ response = None
    /\ calls = 0

\* post, lines 19-23: request validation
Validate ==
    /\ pc = "post"
    /\ IF request.valid
         THEN /\ pc' = "calculate"
              /\ response' = response
         ELSE /\ pc' = "done"
              /\ response' = Some([status |-> HTTP_400_BAD_REQUEST, body |-> <<"errors">>])
    /\ UNCHANGED <<request, now, start_date, end_date, log, stock1_data, stock2_data,
                   combined_data, returns, outcome, records, calls>>

\* post calls calculate; calculate steps 1-2: date defaulting
DateHandling ==
    /\ pc = "calculate"
    /\ calls' = calls + 1
    /\ \E clock \in Clock :
          LET ed == DefaultEnd(request.end_date, clock)
          IN  /\ now' = IF IsNone(request.end_date) THEN Some(clock) ELSE None
              /\ end_date' = Some(ed)
              /\ start_date' = Some(DefaultStart(request.start_date, ed))
    /\ pc' = "fetch1"
    /\ UNCHANGED <<request, log, stock1_data, stock2_data, combined_data, returns,
                   outcome, records, response>>

\* calculate lines 246-248: stock1_data = fetch_stock_data(ticker1, start_date, end_date)
Fetch1 ==
    /\ pc = "fetch1"
    /\ \E resp \in SourceResponses :
          LET r == fetch_stock_data(request.ticker1, resp)
          IN  /\ log' = Append(log, Download(request.ticker1, start_date[1], end_date[1], resp, r))
              /\ pc' = AfterFetch(r, "fetch2")
              /\ IF r.ok
                   THEN /\ stock1_data' = Some(r.value)
                        /\ outcome' = outcome
                   ELSE /\ stock1_data' = stock1_data
                        /\ outcome' = Some(CalculationError(r.exc))
    /\ UNCHANGED <<request, now, start_date, end_date, stock2_data, combined_data,
                   returns, records, response, calls>>

\* calculate lines 249-251: stock2_data = fetch_stock_data(ticker2, start_date, end_date)
Fetch2 ==
    /\ pc = "fetch2"
    /\ \E resp \in SourceResponses :
          LET r == fetch_stock_data(request.ticker2, resp)
          IN  /\ log' = Append(log, Download(request.ticker2, start_date[1], end_date[1], resp, r))
              /\ pc' = AfterFetch(r, "compute")
              /\ IF r.ok
                   THEN /\ stock2_data' = Some(r.value)
                        /\ outcome' = outcome
                   ELSE /\ stock2_data' = stock2_data
                        /\ outcome' = Some(CalculationError(r.exc))
    /\ UNCHANGED <<request, now, start_date, end_date, stock1_data, combined_data,
                   returns, records, response, calls>>

\* calculate lines 259-305: alignment to assembly, under the except handler
Calculate ==
    /\ pc = "compute"
    /\ \E fm \in FillMethods :
          LET combined == Concat(stock1_data[1], stock2_data[1])
              rets == Returns(combined, fm)
              r == Compute(request.ticker1, request.ticker2, start_date[1], end_date[1],
                           combined, rets)
          IN  /\ combined_data' = Some(combined)
              /\ returns' = Some(rets)
              /\ outcome' = Some(IF r.ok THEN r ELSE CalculationError(r.exc))
              /\ pc' = IF r.ok THEN "persist" ELSE "except"
    /\ log' = Append(log, [op |-> "statistics"])
    /\ UNCHANGED <<request, now, start_date, end_date, stock1_data, stock2_data,
                   records, response, calls>>

\* the row post builds from a result, lines 35-44
Row(result) ==
    Filtered([result EXCEPT !.first_date = strptime_date(@),
                            !.last_date = strptime_date(@)])

\* post lines 35-49: persist the result and answer 201; a failing database
\* statement is an Exception that is no ValueError, answered 500 (lines 53-57)
Persist ==
    /\ pc = "persist"
    /\ \E db \in {"ok", "error"} :
          IF db = "ok"
            THEN /\ records' = Append(records, Row(outcome[1].value))
                 /\ response' = Some([status |-> HTTP_201_CREATED, body |-> Row(outcome[1].value)])
            ELSE /\ records' = records
                 /\ response' = Some([status |-> HTTP_500_INTERNAL_SERVER_ERROR,
                                      body |-> <<"An unexpected error occurred">>])
    /\ pc' = "done"
    /\ UNCHANGED <<request, now, start_date, end_date, log, stock1_data, stock2_data,
                   combined_data, returns, outcome, calls>>

\* variant: every exception is answered 500
ErrorStatusMutServerError(e) == HTTP_500_INTERNAL_SERVER_ERROR

\* post lines 51-57: which except clause takes an exception
ErrorStatus(e) ==
    IF e.type = "ValueError" THEN HTTP_400_BAD_REQUEST ELSE HTTP_500_INTERNAL_SERVER_ERROR

\* post lines 51-57: the except clauses for an exception out of calculate
Except ==
    /\ pc = "except"
    /\ LET e == outcome[1].exc
       IN  response' = Some([status |-> ErrorStatus(e),
                             body |-> IF e.type = "ValueError" THEN e.msg
                                      ELSE <<"An unexpected error occurred">> \o e.msg])
    /\ pc' = "done"
    /\ UNCHANGED <<request, now, start_date, end_date, log, stock1_data, stock2_data,
                   combined_data, returns, outcome, records, calls>>

Next ==
    \/ Validate
    \/ DateHandling
    \/ Fetch1
    \/ Fetch2
    \/ Calculate
    \/ Persist
    \/ Except

Spec == Init /\ [][Next]_vars

--------------------------------------------------------------------------
(* What the properties below read off a state *)

Calculated == ~IsNone(outcome)

Returned == Calculated /\ outcome[1].ok

Failed == Calculated /\ ~outcome[1].ok

Result == outcome[1].value

Error == outcome[1].exc

StatisticsRan == Len(log) > 0 /\ log[Len(log)].op = "statistics"

Dates1 == DOMAIN stock1_data[1]

Dates2 == DOMAIN stock2_data[1]

CleanReturns == returns[1]

IsSuffix(m, whole) ==
    Len(m) <= Len(whole) /\ SubSeq(whole, Len(whole) - Len(m) + 1, Len(whole)) = m

ResultKeys == {"correlation", "covariance", "start_date", "end_date", "ticker1", "ticker2",
               "data_points", "first_date", "last_date", "trading_days"}

\* the message of the failure calculate's handler caught, read off the history
OriginMsg ==
    LET last == log[Len(log)]
    IN  IF last.op = "download"
          THEN IF last.answer.kind = "raise" THEN last.answer.msg ELSE MsgNoData(last.ticker)
          ELSE IF Len(CleanReturns) < 2 THEN MsgInsufficient ELSE MsgNaN

\* all values of a column of returns are the same number
ZeroVariance(col) ==
    \A i, j \in 1..Len(col) : col[i].num * col[j].den = col[j].num * col[i].den

ReturnColumn1 == [i \in 1..Len(CleanReturns) |-> CleanReturns[i].c1]

ReturnColumn2 == [i \in 1..Len(CleanReturns) |-> CleanReturns[i].c2]

\* the kind of a raised error, as the caller can tell it: by how its message starts
Kind(e) ==
    IF Head(e.msg) = "Calculation error" THEN "CalculationError"
    ELSE IF Head(e.msg) = "Error fetching data for" THEN "FetchError"
    ELSE IF Head(e.msg) = "No data found for ticker" THEN "DataUnavailable"
    ELSE IF e.msg = MsgInsufficient THEN "InsufficientData"
    ELSE IF e.msg = MsgNaN THEN "NaNResult"
    ELSE "other"

--------------------------------------------------------------------------
(* Properties *)

\* C1: whatever step of calculate fails, the caller gets one error kind,
\* CalculationError (a ValueError whose message is "Calculation error: " followed
\* by the message of the failure that was caught); otherwise it gets a result with
\* all ten fields, both statistics defined. Nothing in between.
C1_UniformError ==
    Calculated =>
        IF outcome[1].ok
          THEN /\ DOMAIN Result = ResultKeys
               /\ ~isna(Result.correlation)
               /\ ~isna(Result.covariance)
          ELSE /\ DOMAIN outcome[1] = {"ok", "exc"}
               /\ Error.type = "ValueError"
               /\ Kind(Error) = "CalculationError"
               /\ Tail(Error.msg) # << >>
               /\ IsSuffix(OriginMsg, Error.msg)

\* C1 witness: a source exception during the second fetch surfaced as CalculationError
C1_Witness ==
    /\ Failed
    /\ Len(log) = 2
    /\ log[2].answer.kind = "raise"
    /\ Error.msg = <<"Calculation error", "Error fetching data for", request.ticker2,
                     "connection timed out">>

\* C2: effective end = supplied end or now; effective start = supplied start or
\* effective end - 365 days; both fetches get these values as they are; the
\* result's start_date/end_date are their calendar dates.
C2_DateDefaulting ==
    calls > 0 =>
        LET ed == IF IsNone(request.end_date) THEN now[1] ELSE request.end_date[1]
            sd == IF IsNone(request.start_date)
                    THEN [day |-> ed.day - 365, tod |-> ed.tod, dt |-> ed.dt]
                    ELSE request.start_date[1]
        IN  /\ end_date = Some(ed)
            /\ start_date = Some(sd)
            /\ \A i \in 1..Len(log) :
                  log[i].op = "download" => log[i].start = sd /\ log[i].end = ed
            /\ Returned =>
                  /\ Result.start_date = [day |-> sd.day, tod |-> 0, dt |-> FALSE]
                  /\ Result.end_date = [day |-> ed.day, tod |-> 0, dt |-> FALSE]

\* C2 witness: a result of a call without dates; the clock's time of day reached
\* both fetches and is not in the result
C2_Witness ==
    /\ Returned
    /\ IsNone(request.start_date) /\ IsNone(request.end_date)
    /\ now[1].tod # 0
    /\ log[1].end = now[1] /\ log[2].end = now[1]
    /\ log[2].start.tod = now[1].tod
    /\ Result.end_date.tod = 0 /\ Result.start_date.tod = 0

\* C3 (as claimed): in a result trading_days is the number of days of either
\* series, data_points = trading_days - k with k >= 1, and k = 1 exactly when the
\* two series have the same days.
C3_Claim ==
    Returned =>
        /\ Result.trading_days = Cardinality(Dates1 \cup Dates2)
        /\ Result.trading_days - Result.data_points >= 1
        /\ (Result.trading_days - Result.data_points = 1) <=> (Dates1 = Dates2)

\* C4: once both fetches succeeded, calculate fails with the insufficient-data
\* message (inside CalculationError) exactly when fewer than 2 return rows remain;
\* a result has data_points >= 2.
C4_Insufficient ==
    /\ StatisticsRan =>
          ((Failed /\ Error.msg = <<"Calculation error">> \o MsgInsufficient)
              <=> Len(CleanReturns) < 2)
    /\ (Failed /\ IsSuffix(MsgInsufficient, Error.msg)) =>
          (StatisticsRan /\ Len(CleanReturns) < 2)
    /\ Returned => Result.data_points >= 2 /\ Result.data_points = Len(CleanReturns)

\* C4 witness: exactly one return row left, and the insufficient-data failure
C4_Witness ==
    /\ StatisticsRan
    /\ Len(CleanReturns) = 1
    /\ Failed
    /\ Error.msg = <<"Calculation error">> \o MsgInsufficient

\* C5: with at least 2 return rows, a return column of zero variance makes
\* calculate fail with the NaN message (inside CalculationError); a result is
\* returned only when correlation and covariance are defined.
C5_ZeroVariance ==
    /\ (StatisticsRan /\ Len(CleanReturns) >= 2
          /\ (ZeroVariance(ReturnColumn1) \/ ZeroVariance(ReturnColumn2))) =>
          (Failed /\ Error.msg = <<"Calculation error">> \o MsgNaN)
    /\ Returned =>
          /\ ~ZeroVariance(ReturnColumn1) /\ ~ZeroVariance(ReturnColumn2)
          /\ ~Result.correlation.nan /\ ~Result.covariance.nan
          /\ Result.correlation.sxx > 0 /\ Result.correlation.syy > 0

\* C5 witness: ticker1's price is constant over at least 3 days, ticker2's is not,
\* and the call failed with the NaN message
C5_Witness ==
    /\ StatisticsRan
    /\ Dates1 = Dates2 /\ Cardinality(Dates1) >= 3
    /\ \A d, e \in Dates1 : stock1_data[1][d] = stock1_data[1][e]
    /\ ~ZeroVariance(ReturnColumn2)
    /\ Failed
    /\ Error.msg = <<"Calculation error">> \o MsgNaN

\* C6 (as claimed): a fetch returns the series, or fails with one of two distinct
\* kinds: DataUnavailable when the source has no rows or no adjusted close,
\* FetchError with the original message when the source call raised.
C6_Claim ==
    \A i \in 1..Len(log) :
        log[i].op = "download" =>
            CASE log[i].answer.kind = "rows" -> IsNone(log[i].raised)
              [] log[i].answer.kind = "raise" ->
                    /\ ~IsNone(log[i].raised)
                    /\ Kind(log[i].raised[1]) = "FetchError"
                    /\ IsSuffix(log[i].answer.msg, log[i].raised[1].msg)
              [] OTHER ->
                    /\ ~IsNone(log[i].raised)
                    /\ Kind(log[i].raised[1]) = "DataUnavailable"

\* C7: the source is queried for ticker1 first, for ticker2 only after ticker1's
\* fetch returned, statistics only after both returned; at most one query per
\* ticker argument; a failed first fetch ends the calculation.
C7_FetchOrder ==
    /\ Len(log) <= 3
    /\ Len(log) >= 1 => log[1].op = "download" /\ log[1].ticker = request.ticker1
    /\ Len(log) >= 2 =>
          /\ log[2].op = "download" /\ log[2].ticker = request.ticker2
          /\ IsNone(log[1].raised) /\ stock1_data # None
    /\ Len(log) >= 3 =>
          /\ log[3].op = "statistics"
          /\ IsNone(log[2].raised) /\ stock2_data # None
    /\ (Len(log) \in {1, 2} /\ ~IsNone(log[Len(log)].raised)) => Failed
    /\ (Failed /\ ~IsNone(log[1].raised)) => Len(log) = 1

\* C7 witness: ticker1's fetch failed, the request is finished, nothing was
\* asked about ticker2
C7_Witness ==
    /\ pc = "done"
    /\ Len(log) = 1
    /\ ~IsNone(log[1].raised)
    /\ Failed

\* C8: in a result first_date <= last_date; when both dates were supplied and the
\* source returned only days inside the requested range, start_date <= first_date
\* and last_date <= end_date.
C8_DateBounds ==
    Returned =>
        /\ Result.first_date.iso <= Result.last_date.iso
        /\ ( /\ ~IsNone(request.start_date) /\ ~IsNone(request.end_date)
             /\ \A d \in Dates1 \cup Dates2 :
                   Before(start_date[1], Timestamp(d)) /\ Before(Timestamp(d), end_date[1]) )
           => /\ Result.start_date.day <= Result.first_date.iso
              /\ Result.last_date.iso <= Result.end_date.day

\* C8 witness: a result for supplied dates and in-range data, with first < last
C8_Witness ==
    /\ Returned
    /\ ~IsNone(request.start_date) /\ ~IsNone(request.end_date)
    /\ \A d \in Dates1 \cup Dates2 :
          Before(start_date[1], Timestamp(d)) /\ Before(Timestamp(d), end_date[1])
    /\ Result.first_date.iso < Result.last_date.iso

\* C9 (as claimed): the rows left after join, pct_change and dropna have no
\* undefined value, and each is of a day on which both tickers have a price.
C9_Claim ==
    StatisticsRan =>
        \A i \in 1..Len(CleanReturns) :
            /\ RowComplete(CleanReturns[i])
            /\ CleanReturns[i].date \in Dates1 \cap Dates2

\* C10: a record is created only for a valid request whose calculation returned,
\* then exactly one, with answer 201; an invalid request never reaches calculate;
\* an invalid request or a failed calculation leaves no record and is answered
\* 400, never 500.
C10_View ==
    /\ Len(records) <= 1
    /\ calls <= 1
    /\ Len(records) = 1 =>
          /\ request.valid /\ Returned /\ pc = "done"
          /\ response[1].status = 201
          /\ records[1] = response[1].body
    /\ (pc = "done" /\ response[1].status = 201) => Len(records) = 1
    /\ ~request.valid =>
          /\ calls = 0 /\ ~Calculated /\ log = << >> /\ records = << >>
          /\ pc = "done" => response[1].status = 400
    /\ Failed =>
          /\ records = << >>
          /\ pc = "done" => response[1].status = 400 /\ response[1].body = Error.msg

\* C10 witness: the request is answered 201 with its one record
C10_Witness ==
    /\ pc = "done"
    /\ Len(records) = 1
    /\ response[1].status = 201
    /\ records[1].data_points >= 2

==========================================================================
